---- MODULE Spec2Model ----
(***************************************************************************)
(* Skip-gram context-pair construction: SkipGramDataset.__init__ of the    *)
(* word-embedding notebook, modelled statement by statement.               *)
(*                                                                         *)
(*   def __init__(self, text, window_size=4):                              *)
(*       self.window_size = window_size                                    *)
(*       self.data = []                                                    *)
(*       for i, center_word in enumerate(text):                            *)
(*           for j in range(i - window_size, i + window_size + 1):         *)
(*               if j != i and j >= 0 and j < len(text):                   *)
(*                   self.data.append((center_word, text[j]))              *)
(*                                                                         *)
(* Indices i and j are 0-based as in the source; At translates a Python    *)
(* subscript to the 1-based TLA+ sequence.                                 *)
(***************************************************************************)
EXTENDS Integers, Sequences, FiniteSets, TLC

\* ---------------------------------------------------------------- bounds
\* Longest token sequence passed to the constructor.
MaxLen == 4
\* Largest explicit window_size argument, and how far below zero it may go.
MaxWindow == 2
MaxNegWindow == 1
\* How many times the constructor is run again on the same arguments.
MaxReruns == 1

\* window_size=4: the default of the parameter.
DefaultWindowSize == 4

\* ------------------------------------------------------- Python values
\* Python is dynamically typed: a list element carries its type. __init__
\* never inspects it.
PyInt(n) == [type |-> "int", val |-> n]
PyStr(n) == [type |-> "str", val |-> n]

\* Token ids as text_pipeline produces them (vocabulary indices).
TokenIds == {10, 11, 12, 13}
\* A word that was not mapped through the vocabulary: a str, not an int.
Objects == {PyInt(n) : n \in TokenIds} \cup {PyStr(11)}

Texts == UNION {[1..n -> Objects] : n \in 0..MaxLen}
WindowSizes == ((0 - MaxNegWindow)..MaxWindow) \cup {DefaultWindowSize}

\* text[k] for a Python list: 0-based, a negative subscript counts from the end.
At(seq, k) == IF k >= 0 THEN seq[k + 1] ELSE seq[Len(seq) + k + 1]

VARIABLES
    text,               \* argument: the token sequence
    window_size,        \* argument: the window size
    self_window_size,   \* self.window_size
    data,               \* self.data
    i,                  \* enumerate counter / center index
    j,                  \* range counter / context index
    pc,                 \* "call" | "for_i" | "for_j" | "returned"
    emitted_at,         \* history: the (i, j) at which each element of data was appended
    previous,           \* history: self.data as returned by the earlier runs
    narrower            \* history: the dataset built before on the same text with a window no larger

\* The notebooks' training, evaluation and grid-search cells.
VARIABLES
    loop,               \* which cell runs: "none" | "autograd" | "structured" | "grid" | "skipgram" | "bert"
    n_samples,          \* rows of the training data (len(dataset))
    tpc,                \* position in the cell
    phase,              \* "train" | "eval"
    op,                 \* index of the next statement of the loop body
    epoch,              \* epoch counter of the for loop
    combo,              \* how many elements of grid have been taken
    left,               \* rows the current pass over the data has not delivered yet
    remaining,          \* skip-gram loader: the dataset indices not delivered yet in this epoch
    batch,              \* skip-gram loader: the dataset indices of the current batch
    model_id,           \* identity of the object bound to model
    training,           \* model.training
    grad_enabled,       \* FALSE inside with torch.no_grad()
    grad,               \* backward passes summed in the parameters' .grad since it was last zeroed
    weights,            \* optimizer steps applied to the current model's parameters
    results,            \* grid search: the results list
    sched_steps,        \* lr_scheduler.step() calls
    bar,                \* progress_bar position
    done_ops,           \* history: the statements executed in the current iteration
    delivered,          \* history: per dataset index, the batches it was delivered in over the run
    delivered_epoch,    \* history: the same, in the current epoch
    trained_under       \* history: (model_id, combo) for every optimizer step

genvars == <<text, window_size, self_window_size, data, i, j, pc, emitted_at, previous,
             narrower>>

trainvars == <<loop, n_samples, tpc, phase, op, epoch, combo, left, remaining, batch,
               model_id, training, grad_enabled, grad, weights, results, sched_steps,
               bar, done_ops, delivered, delivered_epoch, trained_under>>

vars == <<genvars, trainvars>>

\* No training cell runs while the dataset is being constructed.
TrainIdle ==
    /\ loop = "none"
    /\ n_samples = 0
    /\ tpc = "idle"
    /\ phase = "train"
    /\ op = 0
    /\ epoch = 0
    /\ combo = 0
    /\ left = 0
    /\ remaining = {}
    /\ batch = {}
    /\ model_id = 0
    /\ training = TRUE
    /\ grad_enabled = TRUE
    /\ grad = 0
    /\ weights = 0
    /\ results = << >>
    /\ sched_steps = 0
    /\ bar = 0
    /\ done_ops = << >>
    /\ delivered = << >>
    /\ delivered_epoch = << >>
    /\ trained_under = {}

\* --------------------------------------------------------- __init__
\* self.data = []   (stale: whatever the name was bound to before)
NewList_Kept(stale) == stale
NewList(stale) == << >>

\* self.data = [] binds a new list object: self.data is not the object text,
\* so an append to self.data leaves text alone. (With self.data = text the two
\* names would share one list and every append would also grow text.)
DataIsText_Aliased == TRUE
DataIsText == FALSE

\* range(i - window_size, i + window_size + 1): first value and exclusive stop.
RangeStart_OffByOne(ci, w) == ci - w + 1
RangeStart_SignError(ci, w) == ci + w
RangeStart(ci, w) == ci - w

RangeStop_OffByOne(ci, w) == ci + w
RangeStop(ci, w) == ci + w + 1

\* if j != i and j >= 0 and j < len(text)
IsContext_WithSelf(ci, cj, n) == cj >= 0 /\ cj < n
IsContext_ByValue(ci, cj, n) == cj >= 0 /\ cj < n /\ At(text, cj) # At(text, ci)
IsContext(ci, cj, n) == cj # ci /\ cj >= 0 /\ cj < n

\* center_word, as enumerate(text) binds it beside i.
center_word == At(text, i)

\* (center_word, text[j]): the tuple appended to self.data.
Pair_Swapped(center, context) == <<context, center>>
Pair(center, context) == <<center, context>>

\* The attributes and the loop variables are unbound before the call; the
\* values given here are never read (pc = "call" assigns before any use).
Init ==
    /\ text \in Texts
    /\ window_size \in WindowSizes
    /\ self_window_size = 0
    /\ data = << >>
    /\ i = 0
    /\ j = 0
    /\ pc = "call"
    /\ emitted_at = << >>
    /\ previous = << >>
    /\ narrower = << >>
    /\ TrainIdle

\* self.window_size = window_size; self.data = []; enumerate starts at 0.
Enter ==
    /\ pc = "call"
    /\ self_window_size' = window_size
    /\ data' = NewList(data)
    /\ emitted_at' = NewList(emitted_at)
    /\ i' = 0
    /\ pc' = "for_i"
    /\ UNCHANGED <<text, window_size, j, previous, narrower, trainvars>>

\* for i, center_word in enumerate(text): the next center, and the inner range.
NextCenter ==
    /\ pc = "for_i"
    /\ i < Len(text)
    /\ j' = RangeStart(i, window_size)
    /\ pc' = "for_j"
    /\ UNCHANGED <<text, window_size, self_window_size, data, i, emitted_at, previous, narrower, trainvars>>

\* enumerate(text) is exhausted: __init__ returns.
Return ==
    /\ pc = "for_i"
    /\ ~(i < Len(text))
    /\ pc' = "returned"
    /\ UNCHANGED <<text, window_size, self_window_size, data, i, j, emitted_at, previous, narrower, trainvars>>

\* One pass of the inner loop body with the test true: append the pair.
Emit ==
    /\ pc = "for_j"
    /\ j < RangeStop(i, window_size)
    /\ IsContext(i, j, Len(text))
    /\ data' = Append(data, Pair(center_word, At(text, j)))
    /\ text' = IF DataIsText THEN Append(text, Pair(center_word, At(text, j))) ELSE text
    /\ emitted_at' = Append(emitted_at, <<i, j>>)
    /\ j' = j + 1
    /\ UNCHANGED <<window_size, self_window_size, i, pc, previous, narrower, trainvars>>

\* One pass of the inner loop body with the test false: nothing is appended.
Skip ==
    /\ pc = "for_j"
    /\ j < RangeStop(i, window_size)
    /\ ~IsContext(i, j, Len(text))
    /\ j' = j + 1
    /\ UNCHANGED <<text, window_size, self_window_size, data, i, pc, emitted_at, previous, narrower, trainvars>>

\* range(...) is exhausted: back to the outer loop with the next index.
EndRange ==
    /\ pc = "for_j"
    /\ ~(j < RangeStop(i, window_size))
    /\ i' = i + 1
    /\ pc' = "for_i"
    /\ UNCHANGED <<text, window_size, self_window_size, data, j, emitted_at, previous, narrower, trainvars>>

\* The constructor is run again with the same arguments. Whatever the first
\* run left behind (attributes, loop variables) is still there.
Rerun ==
    /\ pc = "returned"
    /\ Len(previous) < MaxReruns
    /\ previous' = Append(previous, data)
    /\ pc' = "call"
    /\ UNCHANGED <<text, window_size, self_window_size, data, i, j, emitted_at, narrower,
                   trainvars>>

\* A second dataset is constructed on the same text with a window_size at least
\* as large: SkipGramDataset(text, w2) after SkipGramDataset(text, w1), w1 <= w2.
\* The first dataset's attributes are kept beside it.
Widen ==
    /\ pc = "returned"
    /\ narrower = << >>
    /\ \E w2 \in WindowSizes :
         /\ w2 >= window_size
         /\ window_size' = w2
    /\ narrower' = << [window_size |-> self_window_size, data |-> data,
                       emitted_at |-> emitted_at] >>
    /\ pc' = "call"
    /\ UNCHANGED <<text, self_window_size, data, i, j, emitted_at, previous, trainvars>>

\* def __len__(self): return len(self.data)
DatasetLen_OffByOne == Len(data) + 1
DatasetLen == Len(data)

\* def __getitem__(self, idx): return self.data[idx]
GetItem(idx) == At(data, idx)

Next == Enter \/ NextCenter \/ Return \/ Emit \/ Skip \/ EndRange \/ Rerun

Spec == Init /\ [][Next]_vars

\* Two datasets on one text, the second with the larger window.
WidenInit == Init /\ window_size >= 0

WidenNext == Enter \/ NextCenter \/ Return \/ Emit \/ Skip \/ EndRange \/ Widen

SpecWiden == WidenInit /\ [][WidenNext]_vars

\* ================================================== training cells
\* How large a skip-gram dataset the training cell is given.
MaxPairs == 33

\* num_epochs = 500; input_data has 3 rows; test_data has 2.
AutogradEpochs == 500
AutogradRows == 3
AutogradTestRows == 2
\* n_epochs = 100; make_classification(n_samples=1000), test_size=0.1.
StructuredEpochs == 100
ClassificationRows == 1000
TrainRows == (ClassificationRows * 9) \div 10
TestRows == ClassificationRows - TrainRows
\* for epoch in range(100), inside the grid search.
GridEpochs == 100
\* epochs = 5; DataLoader(skipgram_dataset, batch_size=32, shuffle=True).
SkipGramEpochs == 5
SkipGramBatchSize == 32
\* num_epochs = 3; batch_size = 8; select(range(1000)); select(range(10)).
BertEpochs == 3
BertBatchSize == 8
BertTrainRows == 1000
BertTestRows == 10

Loops == {"autograd", "structured", "grid", "skipgram", "bert"}

\* ParameterGrid(param_grid): the keys sorted, the last key varying fastest
\* (the order of the cell's printed output).
Grid ==
    << [lr |-> "0.1", batch_size |-> 16], [lr |-> "0.01", batch_size |-> 16],
       [lr |-> "0.001", batch_size |-> 16],
       [lr |-> "0.1", batch_size |-> 32], [lr |-> "0.01", batch_size |-> 32],
       [lr |-> "0.001", batch_size |-> 32],
       [lr |-> "0.1", batch_size |-> 64], [lr |-> "0.01", batch_size |-> 64],
       [lr |-> "0.001", batch_size |-> 64] >>

\* Rows of the training data of each cell.
TrainSizes(l) ==
    CASE l = "autograd" -> {AutogradRows}
      [] l = "structured" -> {TrainRows}
      [] l = "grid" -> {TrainRows}
      [] l = "skipgram" -> 1..MaxPairs
      [] l = "bert" -> {BertTrainRows}

NumEpochs(l) ==
    CASE l = "autograd" -> AutogradEpochs
      [] l = "structured" -> StructuredEpochs
      [] l = "grid" -> GridEpochs
      [] l = "skipgram" -> SkipGramEpochs
      [] l = "bert" -> BertEpochs

\* Rows one iteration of the training loop is given: the whole tensor, or
\* the loader's batch_size.
TrainBatchSize(l) ==
    CASE l = "autograd" -> AutogradRows
      [] l = "structured" -> TrainRows
      [] l = "grid" -> Grid[combo].batch_size
      [] l = "skipgram" -> SkipGramBatchSize
      [] l = "bert" -> BertBatchSize

\* The cells that evaluate after training, their data and batch size.
HasEval(l) == l \in {"autograd", "structured", "grid", "bert"}

EvalRows(l) ==
    CASE l = "autograd" -> AutogradTestRows
      [] l = "structured" -> TestRows
      [] l = "grid" -> TestRows
      [] l = "bert" -> BertTestRows
      [] OTHER -> 0

EvalBatchSize(l) ==
    CASE l = "bert" -> BertBatchSize
      [] OTHER -> EvalRows(l)

\* DataLoader(...) is called without drop_last: the default, False.
DropLast_True(l) == TRUE
DropLast(l) == FALSE

\* len(dataloader) for a loader of loop l over n rows: the batches one pass
\* yields, a last smaller batch counted unless drop_last.
LenDataLoader(l, n) ==
    IF DropLast(l) THEN n \div TrainBatchSize(l)
    ELSE (n + TrainBatchSize(l) - 1) \div TrainBatchSize(l)

\* num_training_steps = num_epochs * len(train_dataloader): what the scheduler
\* is configured with and the total of the progress bar.
NumTrainingSteps == BertEpochs * LenDataLoader("bert", BertTrainRows)

\* The statements of each training loop body, in source order.
TrainBody_StepBeforeBackward(l) ==
    CASE l = "autograd" -> <<"zero_grad", "forward", "loss", "backward", "step">>
      [] l = "structured" -> <<"forward", "loss", "zero_grad", "step", "backward">>
      [] l = "grid" -> <<"forward", "loss", "zero_grad", "backward", "step">>
      [] l = "skipgram" -> <<"zero_grad", "forward", "loss", "backward", "step">>
      [] l = "bert" -> <<"forward", "loss", "backward", "step", "sched_step",
                         "zero_grad", "progress">>
TrainBody_NoSchedStep(l) ==
    CASE l = "autograd" -> <<"zero_grad", "forward", "loss", "backward", "step">>
      [] l = "structured" -> <<"forward", "loss", "zero_grad", "backward", "step">>
      [] l = "grid" -> <<"forward", "loss", "zero_grad", "backward", "step">>
      [] l = "skipgram" -> <<"zero_grad", "forward", "loss", "backward", "step">>
      [] l = "bert" -> <<"forward", "loss", "backward", "step", "zero_grad", "progress">>
TrainBody(l) ==
    CASE l = "autograd" -> <<"zero_grad", "forward", "loss", "backward", "step">>
      [] l = "structured" -> <<"forward", "loss", "zero_grad", "backward", "step">>
      [] l = "grid" -> <<"forward", "loss", "zero_grad", "backward", "step">>
      [] l = "skipgram" -> <<"zero_grad", "forward", "loss", "backward", "step">>
      [] l = "bert" -> <<"forward", "loss", "backward", "step", "sched_step",
                         "zero_grad", "progress">>

\* Statements before the training loop: model.train() in the BERT cell.
TrainPrelude(l) == IF l = "bert" THEN <<"train_mode">> ELSE << >>

\* The evaluation cells: the statements before the pass over the test data,
\* those run for each batch of it, and those after it.
EvalPrelude(l) ==
    CASE l = "autograd" -> <<"no_grad", "eval_mode">>
      [] l = "structured" -> <<"eval_mode", "no_grad">>
      [] l = "grid" -> <<"eval_mode", "no_grad">>
      [] l = "bert" -> <<"eval_mode">>
      [] OTHER -> << >>

EvalBody_WithStep(l) ==
    CASE l = "autograd" -> <<"forward">>
      [] l = "structured" -> <<"forward", "loss", "step">>
      [] l = "grid" -> <<"forward", "loss">>
      [] l = "bert" -> <<"no_grad", "forward", "end_no_grad", "metric">>
      [] OTHER -> << >>
EvalBody(l) ==
    CASE l = "autograd" -> <<"forward">>
      [] l = "structured" -> <<"forward", "loss">>
      [] l = "grid" -> <<"forward", "loss">>
      [] l = "bert" -> <<"no_grad", "forward", "end_no_grad", "metric">>
      [] OTHER -> << >>

EvalPostlude(l) ==
    CASE l = "autograd" -> <<"end_no_grad">>
      [] l = "structured" -> <<"end_no_grad">>
      [] l = "grid" -> <<"end_no_grad">>
      [] l = "bert" -> <<"metric">>
      [] OTHER -> << >>

\* The statements the cell is executing at its current position.
Program ==
    CASE tpc = "prelude" -> (IF phase = "train" THEN TrainPrelude(loop) ELSE EvalPrelude(loop))
      [] tpc = "body" -> (IF phase = "train" THEN TrainBody(loop) ELSE EvalBody(loop))
      [] tpc = "postlude" -> (IF phase = "train" THEN << >> ELSE EvalPostlude(loop))
      [] OTHER -> << >>

Running == tpc \in {"prelude", "body", "postlude"}
NextIs(name) == Running /\ op <= Len(Program) /\ Program[op] = name

BatchSize == IF phase = "train" THEN TrainBatchSize(loop) ELSE EvalBatchSize(loop)

\* model = SimpleNN() and the like: a new object.
NewModel_Reused(id) == IF id = 0 THEN 1 ELSE id
NewModel(id) == id + 1

\* optimizer.zero_grad()
ZeroGrad_Noop(g) == g
ZeroGrad(g) == 0

\* The k-element subsets of S.
RECURSIVE KSubsets(_, _)
KSubsets(S, k) ==
    IF k = 0 THEN {{}}
    ELSE UNION {{T \cup {x} : T \in KSubsets({y \in S : y > x}, k - 1)} : x \in S}

\* The dataset indices 0..len(dataset)-1 the skip-gram loader draws from.
Indices == 0..(n_samples - 1)

Min2(a, b) == IF a <= b THEN a ELSE b

\* Nothing but the place in the program changes.
Advance(name) ==
    /\ op' = op + 1
    /\ done_ops' = Append(done_ops, name)

TrainInit ==
    /\ text = << >>
    /\ window_size = DefaultWindowSize
    /\ self_window_size = 0
    /\ data = << >>
    /\ i = 0
    /\ j = 0
    /\ pc = "call"
    /\ emitted_at = << >>
    /\ previous = << >>
    /\ narrower = << >>
    /\ loop \in Loops
    /\ n_samples \in TrainSizes(loop)
    /\ tpc = "start"
    /\ phase = "train"
    /\ op = 0
    /\ epoch = 0
    /\ combo = 0
    /\ left = 0
    /\ remaining = {}
    /\ batch = {}
    /\ model_id = 0
    /\ training = TRUE
    /\ grad_enabled = TRUE
    /\ grad = 0
    /\ weights = 0
    /\ results = << >>
    /\ sched_steps = 0
    /\ bar = 0
    /\ done_ops = << >>
    /\ delivered = [k \in (IF loop = "skipgram" THEN Indices ELSE {}) |-> 0]
    /\ delivered_epoch = [k \in (IF loop = "skipgram" THEN Indices ELSE {}) |-> 0]
    /\ trained_under = {}

\* model = ...; criterion = ...; optimizer = ...: a new model, no gradients yet.
Setup ==
    /\ tpc = "start"
    /\ loop # "grid"
    /\ model_id' = NewModel(model_id)
    /\ training' = TRUE
    /\ grad' = 0
    /\ weights' = 0
    /\ epoch' = 0
    /\ phase' = "train"
    /\ tpc' = "prelude"
    /\ op' = 1
    /\ UNCHANGED <<genvars, loop, n_samples, combo, left, remaining, batch, grad_enabled,
                   results, sched_steps, bar, done_ops, delivered, delivered_epoch,
                   trained_under>>

\* grid = ParameterGrid(param_grid); results = []
SetupGrid ==
    /\ tpc = "start"
    /\ loop = "grid"
    /\ results' = << >>
    /\ combo' = 0
    /\ tpc' = "params"
    /\ UNCHANGED <<genvars, loop, n_samples, phase, op, epoch, left, remaining, batch,
                   model_id, training, grad_enabled, grad, weights, sched_steps, bar,
                   done_ops, delivered, delivered_epoch, trained_under>>

\* for params in grid: lr, batch_size; model = SimpleNN(); criterion; optimizer;
\* train_loader.
NextParams ==
    /\ tpc = "params"
    /\ combo < Len(Grid)
    /\ combo' = combo + 1
    /\ model_id' = NewModel(model_id)
    /\ training' = TRUE
    /\ grad' = 0
    /\ weights' = 0
    /\ epoch' = 0
    /\ phase' = "train"
    /\ tpc' = "prelude"
    /\ op' = 1
    /\ UNCHANGED <<genvars, loop, n_samples, left, remaining, batch, grad_enabled,
                   results, sched_steps, bar, done_ops, delivered, delivered_epoch,
                   trained_under>>

\* grid is exhausted.
GridDone ==
    /\ tpc = "params"
    /\ combo = Len(Grid)
    /\ tpc' = "done"
    /\ UNCHANGED <<genvars, loop, n_samples, phase, op, epoch, combo, left, remaining,
                   batch, model_id, training, grad_enabled, grad, weights, results,
                   sched_steps, bar, done_ops, delivered, delivered_epoch, trained_under>>

\* The statements before the loop are done: on to the epochs (training) or to
\* the single pass over the test data (evaluation).
EndPrelude ==
    /\ tpc = "prelude"
    /\ op > Len(Program)
    /\ IF phase = "train"
       THEN /\ tpc' = "epoch"
            /\ UNCHANGED <<left, done_ops>>
       ELSE /\ tpc' = "batch"
            /\ left' = EvalRows(loop)
            /\ done_ops' = done_ops
    /\ UNCHANGED <<genvars, loop, n_samples, phase, op, epoch, combo, remaining, batch,
                   model_id, training, grad_enabled, grad, weights, results, sched_steps,
                   bar, delivered, delivered_epoch, trained_under>>

\* for epoch in range(...): one more pass over the training data.
BeginEpoch ==
    /\ tpc = "epoch"
    /\ epoch < NumEpochs(loop)
    /\ left' = n_samples
    /\ remaining' = (IF loop = "skipgram" THEN Indices ELSE {})
    /\ delivered_epoch' = [k \in DOMAIN delivered_epoch |-> 0]
    /\ tpc' = "batch"
    /\ UNCHANGED <<genvars, loop, n_samples, phase, op, epoch, combo, batch, model_id,
                   training, grad_enabled, grad, weights, results, sched_steps, bar,
                   done_ops, delivered, trained_under>>

\* range(...) is exhausted: training is over.
EndTraining ==
    /\ tpc = "epoch"
    /\ ~(epoch < NumEpochs(loop))
    /\ IF HasEval(loop)
       THEN /\ phase' = "eval"
            /\ tpc' = "prelude"
            /\ op' = 1
            /\ done_ops' = << >>
       ELSE /\ tpc' = "done"
            /\ UNCHANGED <<phase, op, done_ops>>
    /\ UNCHANGED <<genvars, loop, n_samples, epoch, combo, left, remaining, batch,
                   model_id, training, grad_enabled, grad, weights, results, sched_steps,
                   bar, delivered, delivered_epoch, trained_under>>

\* The next batch: batch_size rows, or what is left when that is less. A
\* shuffling loader may deliver any of the rows it has not delivered yet.
NextBatch ==
    /\ tpc = "batch"
    /\ left > 0
    /\ ~(DropLast(loop) /\ left < BatchSize)
    /\ LET size == Min2(BatchSize, left)
       IN /\ left' = left - size
          /\ IF loop = "skipgram"
             THEN \E rest \in KSubsets(remaining, left - size) :
                    /\ batch' = remaining \ rest
                    /\ remaining' = rest
                    /\ delivered' = [k \in DOMAIN delivered |->
                                        IF k \in remaining \ rest THEN delivered[k] + 1
                                        ELSE delivered[k]]
                    /\ delivered_epoch' = [k \in DOMAIN delivered_epoch |->
                                        IF k \in remaining \ rest THEN delivered_epoch[k] + 1
                                        ELSE delivered_epoch[k]]
             ELSE UNCHANGED <<batch, remaining, delivered, delivered_epoch>>
    /\ tpc' = "body"
    /\ op' = 1
    /\ done_ops' = << >>
    /\ UNCHANGED <<genvars, loop, n_samples, phase, epoch, combo, model_id, training,
                   grad_enabled, grad, weights, results, sched_steps, bar, trained_under>>

\* The loader is exhausted: the next epoch, or the end of the evaluation pass.
EndEpoch ==
    /\ tpc = "batch"
    /\ ~(left > 0 /\ ~(DropLast(loop) /\ left < BatchSize))
    /\ IF phase = "train"
       THEN /\ epoch' = epoch + 1
            /\ tpc' = "epoch"
            /\ UNCHANGED <<op, done_ops>>
       ELSE /\ tpc' = "postlude"
            /\ op' = 1
            /\ done_ops' = << >>
            /\ epoch' = epoch
    /\ UNCHANGED <<genvars, loop, n_samples, phase, combo, left, remaining, batch,
                   model_id, training, grad_enabled, grad, weights, results, sched_steps,
                   bar, delivered, delivered_epoch, trained_under>>

\* The loop body is done: back to the loader.
EndBody ==
    /\ tpc = "body"
    /\ op > Len(Program)
    /\ tpc' = "batch"
    /\ UNCHANGED <<genvars, loop, n_samples, phase, op, epoch, combo, left, remaining,
                   batch, model_id, training, grad_enabled, grad, weights, results,
                   sched_steps, bar, done_ops, delivered, delivered_epoch, trained_under>>

\* The evaluation is done: the grid search records it, the other cells end.
EndEval ==
    /\ tpc = "postlude"
    /\ op > Len(Program)
    /\ tpc' = (IF loop = "grid" THEN "record" ELSE "done")
    /\ UNCHANGED <<genvars, loop, n_samples, phase, op, epoch, combo, left, remaining,
                   batch, model_id, training, grad_enabled, grad, weights, results,
                   sched_steps, bar, done_ops, delivered, delivered_epoch, trained_under>>

\* results.append({'lr': lr, 'batch_size': batch_size, ...})
AppendResult ==
    /\ tpc = "record"
    /\ results' = Append(results, Grid[combo])
    /\ tpc' = "params"
    /\ UNCHANGED <<genvars, loop, n_samples, phase, op, epoch, combo, left, remaining,
                   batch, model_id, training, grad_enabled, grad, weights, sched_steps,
                   bar, done_ops, delivered, delivered_epoch, trained_under>>

\* outputs = model(...)
Forward ==
    /\ NextIs("forward")
    /\ Advance("forward")
    /\ UNCHANGED <<genvars, loop, n_samples, tpc, phase, epoch, combo, left, remaining,
                   batch, model_id, training, grad_enabled, grad, weights, results,
                   sched_steps, bar, delivered, delivered_epoch, trained_under>>

\* loss = criterion(outputs, ...)
Loss ==
    /\ NextIs("loss")
    /\ Advance("loss")
    /\ UNCHANGED <<genvars, loop, n_samples, tpc, phase, epoch, combo, left, remaining,
                   batch, model_id, training, grad_enabled, grad, weights, results,
                   sched_steps, bar, delivered, delivered_epoch, trained_under>>

\* optimizer.zero_grad()
ZeroGradients ==
    /\ NextIs("zero_grad")
    /\ Advance("zero_grad")
    /\ grad' = ZeroGrad(grad)
    /\ UNCHANGED <<genvars, loop, n_samples, tpc, phase, epoch, combo, left, remaining,
                   batch, model_id, training, grad_enabled, weights, results,
                   sched_steps, bar, delivered, delivered_epoch, trained_under>>

\* loss.backward(): the gradients are added to the parameters' .grad.
Backward ==
    /\ NextIs("backward")
    /\ Advance("backward")
    /\ grad' = grad + 1
    /\ UNCHANGED <<genvars, loop, n_samples, tpc, phase, epoch, combo, left, remaining,
                   batch, model_id, training, grad_enabled, weights, results,
                   sched_steps, bar, delivered, delivered_epoch, trained_under>>

\* optimizer.step(): the parameters are updated from their .grad.
Step ==
    /\ NextIs("step")
    /\ Advance("step")
    /\ weights' = weights + 1
    /\ trained_under' = trained_under \cup {<<model_id, combo>>}
    /\ UNCHANGED <<genvars, loop, n_samples, tpc, phase, epoch, combo, left, remaining,
                   batch, model_id, training, grad_enabled, grad, results,
                   sched_steps, bar, delivered, delivered_epoch>>

\* lr_scheduler.step()
SchedStep ==
    /\ NextIs("sched_step")
    /\ Advance("sched_step")
    /\ sched_steps' = sched_steps + 1
    /\ UNCHANGED <<genvars, loop, n_samples, tpc, phase, epoch, combo, left, remaining,
                   batch, model_id, training, grad_enabled, grad, weights, results,
                   bar, delivered, delivered_epoch, trained_under>>

\* progress_bar.update(1)
Progress ==
    /\ NextIs("progress")
    /\ Advance("progress")
    /\ bar' = bar + 1
    /\ UNCHANGED <<genvars, loop, n_samples, tpc, phase, epoch, combo, left, remaining,
                   batch, model_id, training, grad_enabled, grad, weights, results,
                   sched_steps, delivered, delivered_epoch, trained_under>>

\* model.train()
TrainMode ==
    /\ NextIs("train_mode")
    /\ Advance("train_mode")
    /\ training' = TRUE
    /\ UNCHANGED <<genvars, loop, n_samples, tpc, phase, epoch, combo, left, remaining,
                   batch, model_id, grad_enabled, grad, weights, results,
                   sched_steps, bar, delivered, delivered_epoch, trained_under>>

\* model.eval()
EvalMode ==
    /\ NextIs("eval_mode")
    /\ Advance("eval_mode")
    /\ training' = FALSE
    /\ UNCHANGED <<genvars, loop, n_samples, tpc, phase, epoch, combo, left, remaining,
                   batch, model_id, grad_enabled, grad, weights, results,
                   sched_steps, bar, delivered, delivered_epoch, trained_under>>

\* with torch.no_grad():
NoGrad ==
    /\ NextIs("no_grad")
    /\ Advance("no_grad")
    /\ grad_enabled' = FALSE
    /\ UNCHANGED <<genvars, loop, n_samples, tpc, phase, epoch, combo, left, remaining,
                   batch, model_id, training, grad, weights, results,
                   sched_steps, bar, delivered, delivered_epoch, trained_under>>

\* The with torch.no_grad() block is left.
EndNoGrad ==
    /\ NextIs("end_no_grad")
    /\ Advance("end_no_grad")
    /\ grad_enabled' = TRUE
    /\ UNCHANGED <<genvars, loop, n_samples, tpc, phase, epoch, combo, left, remaining,
                   batch, model_id, training, grad, weights, results,
                   sched_steps, bar, delivered, delivered_epoch, trained_under>>

\* metric.add_batch(...) and metric.compute()
Metric ==
    /\ NextIs("metric")
    /\ Advance("metric")
    /\ UNCHANGED <<genvars, loop, n_samples, tpc, phase, epoch, combo, left, remaining,
                   batch, model_id, training, grad_enabled, grad, weights, results,
                   sched_steps, bar, delivered, delivered_epoch, trained_under>>

TrainNext ==
    \/ Setup \/ SetupGrid \/ NextParams \/ GridDone
    \/ EndPrelude \/ BeginEpoch \/ EndTraining \/ NextBatch \/ EndEpoch \/ EndBody
    \/ EndEval \/ AppendResult
    \/ Forward \/ Loss \/ ZeroGradients \/ Backward \/ Step \/ SchedStep \/ Progress
    \/ TrainMode \/ EvalMode \/ NoGrad \/ EndNoGrad \/ Metric

SpecTrain == TrainInit /\ [][TrainNext]_vars

\* ================================================================ claims
Min(a, b) == IF a <= b THEN a ELSE b
Max(a, b) == IF a >= b THEN a ELSE b
Abs(a) == IF a >= 0 THEN a ELSE 0 - a

\* A list of ints, and a list of pairs of ints, as Python values.
Ints(s) == [k \in 1..Len(s) |-> PyInt(s[k])]
IntPairs(s) == [k \in 1..Len(s) |-> <<PyInt(s[k][1]), PyInt(s[k][2])>>]

\* The brute-force enumeration the specification describes: for i = 0..len(S)-1
\* in increasing order, for j = i-w..i+w in increasing order, (S[i], S[j])
\* whenever j # i and 0 <= j <= len(S)-1.
RECURSIVE PairsFrom(_, _, _, _)
PairsFrom(S, w, ci, cj) ==
    IF ci > Len(S) - 1 THEN << >>
    ELSE IF cj > ci + w THEN PairsFrom(S, w, ci + 1, ci + 1 - w)
    ELSE (IF cj # ci /\ 0 <= cj /\ cj <= Len(S) - 1
          THEN << <<S[ci + 1], S[cj + 1]>> >>
          ELSE << >>) \o PairsFrom(S, w, ci, cj + 1)

BruteForce(S, w) == PairsFrom(S, w, 0, 0 - w)

\* C1: for every sequence and every window size w >= 0, the list the constructor
\* returns equals the brute-force enumeration, element by element, in order.
C1_MatchesBruteForce ==
    (pc = "returned" /\ window_size >= 0) => data = BruteForce(text, window_size)

C1_Witness ==
    /\ pc = "returned"
    /\ window_size = 1
    /\ Len(text) = 4
    /\ Len(data) = 6

\* C2: at every point of the generation and in the result, every pair of data
\* was appended at positions (i, j) with data[k] = (text[i], text[j]), j # i,
\* 0 <= j < len(text) and |j - i| <= window_size.
C2_EmittedPairsInWindow ==
    /\ Len(emitted_at) = Len(data)
    /\ \A k \in 1..Len(data) :
         LET ci == emitted_at[k][1]
             cj == emitted_at[k][2]
         IN /\ 0 <= ci /\ ci < Len(text)
            /\ cj # ci
            /\ 0 <= cj /\ cj < Len(text)
            /\ Abs(cj - ci) <= window_size
            /\ data[k] = <<text[ci + 1], text[cj + 1]>>

C2_Witness ==
    /\ pc = "for_j"
    /\ i = 1
    /\ window_size = 2
    /\ Len(data) >= 3

\* C3: a call with a negative window_size ends in an invalid-argument failure:
\* it never returns a pair list, not even an empty one.
C3_NegativeWindowFails ==
    window_size < 0 => pc # "returned"

\* C4: text = [10, 11, 12], window_size = 1 gives exactly
\* [(10,11), (11,10), (11,12), (12,11)], in that order.
C4_ScenarioThreeTokens ==
    (pc = "returned" /\ text = Ints(<<10, 11, 12>>) /\ window_size = 1)
        => data = IntPairs(<< <<10, 11>>, <<11, 10>>, <<11, 12>>, <<12, 11>> >>)

C4_Witness ==
    /\ pc = "returned"
    /\ text = Ints(<<10, 11, 12>>)
    /\ window_size = 1
    /\ Len(data) = 4

\* C5: text = [10, 11, 12, 13], window_size = 2 gives exactly the ten pairs
\* (10,11), (10,12), (11,10), (11,12), (11,13), (12,10), (12,11), (12,13),
\* (13,11), (13,12), in that order.
C5_ScenarioFourTokens ==
    (pc = "returned" /\ text = Ints(<<10, 11, 12, 13>>) /\ window_size = 2)
        => data = IntPairs(<< <<10, 11>>, <<10, 12>>, <<11, 10>>, <<11, 12>>,
                              <<11, 13>>, <<12, 10>>, <<12, 11>>, <<12, 13>>,
                              <<13, 11>>, <<13, 12>> >>)

C5_Witness ==
    /\ pc = "returned"
    /\ text = Ints(<<10, 11, 12, 13>>)
    /\ window_size = 2
    /\ Len(data) = 10

\* C6: for every w >= 0, a sequence of length 0 and a sequence of length 1
\* produce an empty pair list (at every point of the run, and as the result).
C6_ShortSequenceEmpty ==
    (window_size >= 0 /\ Len(text) <= 1) => data = << >>

C6_Witness ==
    /\ pc = "returned"
    /\ Len(text) = 1
    /\ window_size >= 1
    /\ data = << >>

\* C7: with window_size = 0 every non-empty sequence, repeated tokens or not,
\* produces an empty pair list.
C7_ZeroWindowEmpty ==
    (window_size = 0 /\ Len(text) >= 1) => data = << >>

C7_Witness ==
    /\ pc = "returned"
    /\ window_size = 0
    /\ Len(text) >= 3
    /\ text[1] = text[2]
    /\ data = << >>

\* Sum over the centers ci..n-1 of (min(i+w, n-1) - max(i-w, 0) + extra).
RECURSIVE SumSpans(_, _, _, _)
SumSpans(n, w, ci, extra) ==
    IF ci > n - 1 THEN 0
    ELSE (Min(ci + w, n - 1) - Max(ci - w, 0) + extra) + SumSpans(n, w, ci + 1, extra)

\* C8 as stated: the number of emitted pairs is the sum over all i of
\* (min(i+w, len(S)-1) - max(i-w, 0)), minus len(S).
C8_CountAsStated ==
    (pc = "returned" /\ window_size >= 0)
        => Len(data) = SumSpans(Len(text), window_size, 0, 0) - Len(text)

\* C8, amended: the number of emitted pairs is the sum over all i of
\* (min(i+w, len(S)-1) - max(i-w, 0) + 1), the in-range positions of the window
\* of i, minus len(S), one excluded self-pair for each center.
C8_CountLessSelfPairs ==
    (pc = "returned" /\ window_size >= 0)
        => Len(data) = SumSpans(Len(text), window_size, 0, 1) - Len(text)

C8_Witness ==
    /\ pc = "returned"
    /\ window_size = 1
    /\ Len(text) = 3
    /\ Len(data) = 4

\* C9: a sequence that holds an element that is not an integer makes the
\* constructor fail with an invalid-argument condition: it never returns.
C9_NonIntegerSequenceFails ==
    (window_size >= 0 /\ \E k \in 1..Len(text) : text[k].type # "int")
        => pc # "returned"

\* C10: two runs of the constructor on the same sequence and window_size give
\* identical pair lists, whatever state the earlier run left behind.
C10_RerunSameResult ==
    pc = "returned" => \A r \in 1..Len(previous) : previous[r] = data

C10_Witness ==
    /\ pc = "returned"
    /\ Len(previous) >= 1
    /\ Len(text) >= 3
    /\ window_size >= 1
    /\ Len(data) >= 4

\* ------------------------------------------------------------ C11
\* C11: pair generation does not write its input: across every step of the
\* constructor the token sequence keeps its length and every element, and the
\* window_size argument keeps its value; the steps write only the dataset's
\* own attributes (and the loop variables).
C11_InputUnchanged ==
    [][text' = text /\ window_size' = window_size]_vars

C11_Witness ==
    /\ pc = "returned"
    /\ Len(text) = 3
    /\ self_window_size = window_size
    /\ Len(data) = 6

\* ------------------------------------------------------------ C17
\* The position pairs the window admits: 0 <= i, j < len(S), j # i, |j - i| <= w.
WindowPositions(n, w) ==
    {p \in (0..(n - 1)) \X (0..(n - 1)) : p[2] # p[1] /\ Abs(p[2] - p[1]) <= w}

\* C17: for every sequence and w >= 0 the returned list is complete and free of
\* duplicates by position: the positions at which pairs were emitted are exactly
\* the admitted position pairs, each once, and each gives (S[i], S[j]).
C17_CompleteNoDuplicates ==
    (pc = "returned" /\ window_size >= 0) =>
        /\ {emitted_at[k] : k \in 1..Len(emitted_at)} = WindowPositions(Len(text), window_size)
        /\ Len(data) = Cardinality(WindowPositions(Len(text), window_size))
        /\ \A k \in 1..Len(data) :
             data[k] = <<text[emitted_at[k][1] + 1], text[emitted_at[k][2] + 1]>>

C17_Witness ==
    /\ pc = "returned"
    /\ window_size = 2
    /\ Len(text) = 4
    /\ Len(data) = 10

\* ------------------------------------------------------------ C18
\* C18: the emitted pairs are in strictly increasing lexicographic order of
\* (center index, context index), at every point of the run.
C18_EmittedInPositionOrder ==
    \A p, q \in 1..Len(emitted_at) :
        p < q => \/ emitted_at[p][1] < emitted_at[q][1]
                 \/ /\ emitted_at[p][1] = emitted_at[q][1]
                    /\ emitted_at[p][2] < emitted_at[q][2]

C18_Witness ==
    /\ pc = "returned"
    /\ Len(previous) >= 1
    /\ Len(text) = 4
    /\ window_size = 2
    /\ Len(emitted_at) = 10

\* ------------------------------------------------------------ C19
\* Number of pairs emitted with center ci.
EmittedFor(ci) == Cardinality({k \in 1..Len(emitted_at) : emitted_at[k][1] = ci})

\* C19: for every sequence and w >= 0, len(dataset) is the sum over all i of
\* (min(i+w, len(S)-1) - max(i-w, 0)), with nothing subtracted; each center
\* contributes at most 2w pairs, and exactly 2w when w <= i <= len(S)-1-w.
C19_LenIsSumOfSpans ==
    (pc = "returned" /\ window_size >= 0) =>
        /\ DatasetLen = SumSpans(Len(text), window_size, 0, 0)
        /\ \A ci \in 0..(Len(text) - 1) :
             /\ EmittedFor(ci) <= 2 * window_size
             /\ (window_size <= ci /\ ci <= Len(text) - 1 - window_size)
                    => EmittedFor(ci) = 2 * window_size

C19_Witness ==
    /\ pc = "returned"
    /\ window_size = 1
    /\ Len(text) = 4
    /\ EmittedFor(1) = 2
    /\ EmittedFor(0) = 1
    /\ DatasetLen = 6

\* ------------------------------------------------------------ C20
\* C20: self-pairs are excluded by position, not by value: a pair (t, t) is in
\* the returned list exactly when t stands at two distinct positions i # j with
\* |j - i| <= w.
C20_SelfPairsByPosition ==
    (pc = "returned" /\ window_size >= 0) =>
        \A t \in Objects :
            (\E k \in 1..Len(data) : data[k] = <<t, t>>)
                <=> (\E p \in WindowPositions(Len(text), window_size) :
                        text[p[1] + 1] = t /\ text[p[2] + 1] = t)

C20_Witness ==
    /\ pc = "returned"
    /\ window_size = 1
    /\ Len(text) = 3
    /\ text[1] = text[2]
    /\ text[3] # text[1]
    /\ \E k \in 1..Len(data) : data[k] = <<text[1], text[1]>>

\* ------------------------------------------------------------ C12
\* C12 as stated: over the whole run of the skip-gram training cell no pair of
\* the dataset is delivered to the model in more than one batch.
C12_ConsumedOnceOverRun ==
    loop = "skipgram" => \A k \in DOMAIN delivered : delivered[k] <= 1

\* C12, amended: each pair is consumed exactly once per epoch: within an epoch
\* no pair is delivered in more than one batch, a pair is delivered as soon as
\* the loader no longer holds it, and when the epoch ends every pair has been
\* delivered once.
C12_ConsumedOncePerEpoch ==
    loop = "skipgram" =>
        \A k \in DOMAIN delivered_epoch :
            /\ delivered_epoch[k] <= 1
            /\ (tpc \in {"batch", "body"} => (delivered_epoch[k] = 1 <=> k \notin remaining))
            /\ (tpc = "epoch" /\ epoch >= 1) => delivered_epoch[k] = 1

C12_Witness ==
    /\ loop = "skipgram"
    /\ n_samples > SkipGramBatchSize
    /\ tpc = "epoch"
    /\ epoch = 2
    /\ \A k \in DOMAIN delivered : delivered[k] = 2 /\ delivered_epoch[k] = 1

\* ------------------------------------------------------------ C13
\* The four documented steps, in the documented order.
FourSteps == <<"forward", "loss", "backward", "step">>
IsFourStep(name) == name \in {"forward", "loss", "backward", "step"}
IsPrefix(a, b) == Len(a) <= Len(b) /\ \A k \in 1..Len(a) : a[k] = b[k]

\* C13: in the structured-data training loop every epoch runs forward pass,
\* loss computation, backward pass, optimizer step in that order, each exactly
\* once; no optimizer step comes without a backward pass of the same epoch
\* before it; and after n_epochs epochs n_epochs weight updates were applied.
C13_FourStepsPerEpoch ==
    (loop = "structured" /\ phase = "train") =>
        /\ IsPrefix(SelectSeq(done_ops, IsFourStep), FourSteps)
        /\ (tpc = "body" /\ op > Len(TrainBody(loop)))
               => SelectSeq(done_ops, IsFourStep) = FourSteps
        /\ \A k \in 1..Len(done_ops) :
               done_ops[k] = "step" => \E m \in 1..(k - 1) : done_ops[m] = "backward"
        /\ tpc = "epoch" => weights = epoch
        /\ (tpc = "epoch" /\ ~(epoch < StructuredEpochs)) => weights = StructuredEpochs

C13_Witness ==
    /\ loop = "structured"
    /\ phase = "train"
    /\ tpc = "epoch"
    /\ epoch = StructuredEpochs
    /\ weights = StructuredEpochs
    /\ done_ops = <<"forward", "loss", "zero_grad", "backward", "step">>

\* ------------------------------------------------------------ C14
\* From the evaluation cell's first statement to its last.
InEval == phase = "eval" /\ tpc \in {"prelude", "batch", "body", "postlude"}

\* C14: during every evaluation phase no backward pass and no optimizer step
\* occurs, and no step of it changes the weights or the gradients: the weights
\* at the end of the evaluation are the weights at the end of training.
C14_EvalLeavesWeights ==
    [][InEval => (~Backward /\ ~Step /\ weights' = weights /\ grad' = grad
                  /\ model_id' = model_id)]_vars

C14_Witness ==
    /\ loop = "bert"
    /\ phase = "eval"
    /\ tpc = "done"
    /\ training = FALSE
    /\ weights = BertEpochs * (BertTrainRows \div BertBatchSize)

\* ------------------------------------------------------------ C15
\* The combinations of the listed values: 'lr': [0.1, 0.01, 0.001],
\* 'batch_size': [16, 32, 64].
Combinations ==
    {[lr |-> l, batch_size |-> b] : l \in {"0.1", "0.01", "0.001"}, b \in {16, 32, 64}}

\* C15: the grid search trains a new model for every combination: when it ends,
\* results holds one entry per combination, none missing and none repeated
\* (3 x 3 = 9 entries), and at no time was one model trained under two
\* combinations, or one combination's entry produced from two models.
C15_NewModelPerCombination ==
    loop = "grid" =>
        /\ \A a, b \in trained_under : (a[1] = b[1]) <=> (a[2] = b[2])
        /\ \A k \in 1..Len(results) : \E m \in 1..Len(Grid) :
               /\ results[k] = Grid[m]
               /\ <<k, m>> \in trained_under
        /\ tpc = "done" =>
               /\ Len(results) = 3 * 3
               /\ {results[k] : k \in 1..Len(results)} = Combinations
               /\ Cardinality({results[k] : k \in 1..Len(results)}) = Len(results)

C15_Witness ==
    /\ loop = "grid"
    /\ tpc = "done"
    /\ Len(results) = 9
    /\ Cardinality({t[1] : t \in trained_under}) = 9

CountOf(p) == Cardinality({k \in 1..Len(data) : data[k] = p})

\* Some pair of data was emitted at positions (a, b), and it is (S[a], S[b]).
EmittedAt(a, b) ==
    \E k \in 1..Len(data) :
        emitted_at[k] = <<a, b>> /\ data[k] = <<At(text, a), At(text, b)>>

\* C21: for every sequence and w >= 0 the returned list is symmetric: (S[i], S[j])
\* was emitted for positions (i, j) exactly when (S[j], S[i]) was emitted for
\* (j, i); hence every pair (x, y) occurs in the list as often as (y, x) does, so
\* swapping the components of every pair leaves the multiset of pairs unchanged.
C21_SymmetricPairs ==
    (pc = "returned" /\ window_size >= 0) =>
        /\ \A a, b \in 0..(Len(text) - 1) : EmittedAt(a, b) <=> EmittedAt(b, a)
        /\ \A x, y \in Objects : CountOf(<<x, y>>) = CountOf(<<y, x>>)

C21_Witness ==
    /\ pc = "returned"
    /\ window_size = 1
    /\ Len(text) = 4
    /\ text[1] # text[2]
    /\ EmittedAt(0, 1)
    /\ EmittedAt(1, 0)
    /\ ~EmittedAt(0, 2)
    /\ CountOf(<<text[1], text[2]>>) >= 1

\* ------------------------------------------------------------ C22
\* Every ordered pair of distinct positions of S, as (S[i], S[j]), for
\* i = ci..len(S)-1 and j = cj..len(S)-1 within each i, in increasing order.
RECURSIVE AllPairsFrom(_, _, _)
AllPairsFrom(S, ci, cj) ==
    IF ci > Len(S) - 1 THEN << >>
    ELSE IF cj > Len(S) - 1 THEN AllPairsFrom(S, ci + 1, 0)
    ELSE (IF cj # ci THEN << <<S[ci + 1], S[cj + 1]>> >> ELSE << >>)
             \o AllPairsFrom(S, ci, cj + 1)

\* C22: when window_size >= len(S) - 1 the returned list holds every ordered
\* pair of distinct positions, len(S) * (len(S) - 1) pairs, whatever the value
\* of window_size above that threshold; with the default window_size of 4 a
\* 3-token sequence gives all 6 ordered pairs.
C22_SaturatedWindow ==
    (pc = "returned" /\ window_size >= 0 /\ window_size >= Len(text) - 1) =>
        /\ Len(data) = Len(text) * (Len(text) - 1)
        /\ data = AllPairsFrom(text, 0, 0)
        /\ {emitted_at[k] : k \in 1..Len(emitted_at)}
               = {p \in (0..(Len(text) - 1)) \X (0..(Len(text) - 1)) : p[1] # p[2]}
        /\ (window_size = DefaultWindowSize /\ Len(text) = 3) => Len(data) = 6

C22_Witness ==
    /\ pc = "returned"
    /\ window_size = DefaultWindowSize
    /\ Len(text) = 3
    /\ Len(data) = 6
    /\ data[2] = <<text[1], text[3]>>

\* ------------------------------------------------------------ C23
\* A list of pairs with the positions each was emitted at.
Tagged(d, e) == [k \in 1..Len(d) |-> <<e[k], d[k]>>]

\* a is a subsequence of b: a's elements occur in b in the same relative order.
RECURSIVE IsSubsequence(_, _)
IsSubsequence(a, b) ==
    IF a = << >> THEN TRUE
    ELSE IF b = << >> THEN FALSE
    ELSE IF Head(a) = Head(b) THEN IsSubsequence(Tail(a), Tail(b))
    ELSE IsSubsequence(a, Tail(b))

\* C23: pair generation is monotone in the window size: for every sequence and
\* 0 <= w1 <= w2 the list built with w1 is a subsequence of the list built with
\* w2, pair by pair at the same positions and in the same relative order.
C23_MonotoneInWindow ==
    (pc = "returned" /\ narrower # << >>) =>
        /\ 0 <= narrower[1].window_size
        /\ narrower[1].window_size <= window_size
        /\ IsSubsequence(Tagged(narrower[1].data, narrower[1].emitted_at),
                         Tagged(data, emitted_at))
        /\ IsSubsequence(narrower[1].data, data)

C23_Witness ==
    /\ pc = "returned"
    /\ narrower # << >>
    /\ narrower[1].window_size = 1
    /\ window_size = 2
    /\ Len(text) = 4
    /\ Len(narrower[1].data) = 6
    /\ Len(data) = 10

\* ------------------------------------------------------------ C24
\* Batches the skip-gram loader has yielded since the training began, the
\* current one included.
BatchesSoFar ==
    epoch * LenDataLoader("skipgram", n_samples)
        + (IF tpc \in {"batch", "body"}
           THEN LenDataLoader("skipgram", n_samples - left) ELSE 0)

\* C24: in the skip-gram training loop a batch holds at most 32 pairs and only
\* the last batch of an epoch holds fewer; the last, smaller batch is delivered,
\* not dropped, so that when an epoch ends every pair was delivered exactly once
\* in it and after the 5 epochs exactly 5 times; the optimizer has stepped once
\* for every batch delivered.
C24_SkipGramBatches ==
    loop = "skipgram" =>
        /\ Cardinality(batch) <= SkipGramBatchSize
        /\ (tpc = "body" /\ Cardinality(batch) < SkipGramBatchSize)
               => (batch # {} /\ remaining = {})
        /\ \A k \in DOMAIN delivered :
               delivered[k] = epoch + (IF tpc \in {"batch", "body"}
                                       THEN delivered_epoch[k] ELSE 0)
        /\ weights = BatchesSoFar
                       - (IF tpc = "body" /\ ~(\E m \in 1..Len(done_ops) : done_ops[m] = "step")
                          THEN 1 ELSE 0)
        /\ tpc = "done" =>
               /\ \A k \in DOMAIN delivered : delivered[k] = SkipGramEpochs
               /\ weights = SkipGramEpochs * LenDataLoader("skipgram", n_samples)

C24_Witness ==
    /\ loop = "skipgram"
    /\ tpc = "done"
    /\ n_samples = SkipGramBatchSize + 1
    /\ Cardinality(batch) = 1
    /\ weights = 2 * SkipGramEpochs
    /\ \A k \in DOMAIN delivered : delivered[k] = SkipGramEpochs

\* ------------------------------------------------------------ C25
\* C25: in the BERT fine-tuning loop optimizer.step, lr_scheduler.step and
\* progress_bar.update are each called exactly num_training_steps =
\* num_epochs * len(train_dataloader) times: the three counts are equal after
\* every iteration, never exceed num_training_steps, and equal it when the
\* training has ended, so the progress bar ends at its total.
C25_BertStepCounts ==
    loop = "bert" =>
        /\ weights <= NumTrainingSteps
        /\ sched_steps <= NumTrainingSteps
        /\ bar <= NumTrainingSteps
        /\ tpc \in {"epoch", "batch"} => (sched_steps = weights /\ bar = weights)
        /\ (phase = "train" /\ tpc = "epoch")
               => weights = epoch * LenDataLoader("bert", BertTrainRows)
        /\ (phase = "eval" \/ (tpc = "epoch" /\ ~(epoch < BertEpochs))) =>
               /\ weights = NumTrainingSteps
               /\ sched_steps = NumTrainingSteps
               /\ bar = NumTrainingSteps

C25_Witness ==
    /\ loop = "bert"
    /\ phase = "eval"
    /\ tpc = "done"
    /\ NumTrainingSteps = 375
    /\ weights = 375
    /\ sched_steps = 375
    /\ bar = 375

====
